---- MODULE Spec2Model ----
(***************************************************************************)
(* Audit Trail Logs Service (ATLS): the request pipeline                   *)
(*   auth -> tenantContext -> auditRoutes -> auditService                  *)
(* over a pooled PostgreSQL store with row level security and a store-wide *)
(* unique process_id.                                                      *)
(*                                                                         *)
(* One action is one resolution of an await together with the synchronous  *)
(* JavaScript that follows it up to the next await.  A statement that was  *)
(* issued is executed by the store in the action that resolves it.         *)
(***************************************************************************)
EXTENDS Naturals, Integers, Sequences, FiniteSets, TLC

\* ------------------------------------------------------------------ bounds
\* Requests the service receives in one behaviour.
NumRequests == 3
\* Requests of a behaviour of Spec, which also loses connections.
NumClients == 2
\* Batch submissions of a behaviour of SpecIngest, reads of one of SpecQuery.
NumWriters == 2
NumReaders == 1
\* Connection losses the environment injects in one behaviour.
MaxFaults == 1
\* log() calls of the OfflineLogger and POSTs its sync() sends in a behaviour
\* of SpecOffline.
NumLogs == 3
NumSyncs == 2

\* log() calls in a behaviour of SpecOffline, where connections are lost too.
NumOfflineLogs == 2

\* --------------------------------------------------------- program constants
\* pool `max` (20 in the source); the model runs the same pool with two
\* sessions so that three requests exhaust it.
PoolMax == 2
\* batchSchema: logs.max(1000)
BatchMax == 1000
\* querySchema: limit.max(200), limit.default(50)
LimitMax == 200
LimitDefault == 50

\* JavaScript's undefined / null of a text field; the empty string is "".
None == "undefined"
Falsy(v) == v = None \/ v = ""

\* An optional number (a timestamp, limit, offset) is a set of at most one
\* number: {} when the field is absent.
Absent == {}
Num(n) == {n}
ValueOf(o) == CHOOSE n \in o : TRUE

\* ---------------------------------------------------------------- tenants
\* comp_code values are character sequences, so that the quoting done by
\* tenantContext is computed and not assumed.  <<>> is a comp_code that is
\* missing or empty (both are falsy for auth).
NoComp == <<>>
CompA == <<"A">>
CompB == <<"O", "'", "B">>
CompX == <<"X">>
CompCodes == {CompA, CompB}

\* API_KEYS of the environment: comp_code -> key (CompX is not configured).
apiKeys == [c \in CompCodes |-> IF c = CompA THEN "keyA" ELSE "keyB"]

Requests == 1..NumRequests
Sessions == 1..PoolMax

\* ------------------------------------------------------------------- auth
\* apiKeys[comp_code], undefined for a comp_code that is not configured.
configuredKey(comp_code) ==
    IF comp_code \in DOMAIN apiKeys THEN apiKeys[comp_code] ELSE None

\* Faulty variant of auth: any x-api-key is taken for the comp_code's key.
authNoKeyCheck(method, comp_code, apiKey) ==
    IF method \notin {"GET", "POST"} \/ comp_code = NoComp THEN 400
    ELSE IF apiKey = None THEN 401
    ELSE 0

\* Faulty variant of auth: the key of any configured comp_code is accepted.
authAnyTenantKey(method, comp_code, apiKey) ==
    IF method \notin {"GET", "POST"} \/ comp_code = NoComp THEN 400
    ELSE IF \A c \in DOMAIN apiKeys : apiKeys[c] # apiKey THEN 401
    ELSE 0

\* The status auth answers with, or 0 when it calls next().  comp_code is
\* read from the body (POST) or the query (GET), from nowhere otherwise.
auth(method, comp_code, apiKey) ==
    IF method \notin {"GET", "POST"} \/ comp_code = NoComp THEN 400
    ELSE IF apiKey = None \/ configuredKey(comp_code) # apiKey THEN 401
    ELSE 0

\* ---------------------------------------------------------- tenantContext
\* currentCompCode.replace(/'/g, "''")
RECURSIVE escapeQuotes(_)
escapeQuotes(s) ==
    IF s = <<>> THEN <<>>
    ELSE IF Head(s) = "'" THEN <<"'", "'">> \o escapeQuotes(Tail(s))
    ELSE <<Head(s)>> \o escapeQuotes(Tail(s))

\* The store reading the body of a quoted literal: '' is one quote, a lone
\* quote ends the literal and what follows it is a syntax error.
RECURSIVE sqlLiteralValue(_)
sqlLiteralValue(s) ==
    IF s = <<>> THEN [ok |-> TRUE, value |-> <<>>]
    ELSE IF Head(s) = "'"
         THEN IF Len(s) >= 2 /\ s[2] = "'"
              THEN LET r == sqlLiteralValue(Tail(Tail(s)))
                   IN  [ok |-> r.ok, value |-> <<"'">> \o r.value]
              ELSE [ok |-> FALSE, value |-> <<>>]
         ELSE LET r == sqlLiteralValue(Tail(s))
              IN  [ok |-> r.ok, value |-> <<Head(s)>> \o r.value]

\* Faulty variant of the SET: it succeeds and binds no tenant.
setTenantUnbound(currentCompCode) == [ok |-> TRUE, value |-> NoComp]

\* The marker a session holds after SET app.current_tenant = '<tenant>'
\* (ok = FALSE: the statement is a syntax error and sets nothing).
setTenantStatement(currentCompCode) ==
    sqlLiteralValue(escapeQuotes(currentCompCode))

\* ------------------------------------------------------ payloads (inputs)
\* A text the store refuses in a text parameter (it holds a NUL character);
\* zod's z.string() accepts it.
BadText == "app\\u0000"

\* metadata documents are flat: a set of <<key, value>> pairs.
NoMeta == {}
MetaAndroid == {<<"device", "Android">>}
MetaAndroid14 == {<<"device", "Android">>, <<"os", "14">>}
MetaOs14 == {<<"os", "14">>}
MetaOs13 == {<<"os", "13">>}

Log(pid, emp, app, fn, act, meta, at) ==
    [process_id |-> pid, emp_id |-> emp, source_app |-> app,
     source_function |-> fn, reference_id |-> None, action |-> act,
     metadata |-> meta, created_at |-> at]

\* The log entries requests are built from.
LogP1 == Log("p1", "E1", "app1", "f1", "a1", MetaAndroid, Num(1))
LogP2 == Log("p2", "E1", "app1", None, "a2", MetaAndroid14, Num(2))
LogNoPid == Log(None, None, "app2", None, "a1", NoMeta, Absent)
LogEmptyPid == Log("", "E1", "app2", None, "a1", NoMeta, Num(1))
LogBad == Log("p2", None, BadText, None, "a1", NoMeta, Num(1))
LogNoAction == Log("p1", None, "app1", None, None, NoMeta, Num(1))

\* Request bodies of POST /logs/batch: `size` is the length of the logs
\* array; an oversized array is represented by its length and its first
\* entry only.
Body(logs, size, unknown) ==
    [logs |-> logs, size |-> size, unknownKey |-> unknown, created_by |-> None]

\* The logs arrays of the valid bodies.
LogArrays ==
    {<<LogP1, LogP2>>, <<LogP2, LogP1>>, <<LogP1, LogP1>>,
     <<LogP1, LogBad>>, <<LogEmptyPid>>}

\* Faulty variant of logSchema: action is optional.
logSchemaNoAction(log) == log.source_app # None

\* logSchema: source_app and action are required strings.
logSchemaOK(log) == log.source_app # None /\ log.action # None

\* Faulty variant of batchSchema: logs has no max().
batchSchemaNoMax(body) ==
    /\ ~body.unknownKey
    /\ body.size >= 1
    /\ \A i \in 1..Len(body.logs) : logSchemaOK(body.logs[i])

\* batchSchema.parse(req.body) succeeds.
batchSchemaOK(body) ==
    /\ ~body.unknownKey
    /\ body.size >= 1
    /\ body.size <= BatchMax
    /\ \A i \in 1..Len(body.logs) : logSchemaOK(body.logs[i])

\* batchSchema's created_by default.
validatedCreatedBy(body) ==
    IF body.created_by = None THEN "SYSTEM" ELSE body.created_by

\* The metadata key of a search: absent, the text of a JSON document, or a
\* text that is no JSON.
MetaAbsent == [kind |-> "absent", doc |-> {}]
MetaJson(d) == [kind |-> "json", doc |-> d]
MetaNotJson == [kind |-> "text", doc |-> {}]

\* Query strings of the GET routes; `param` is the path parameter
\* (:emp_id, :source_app), the other fields are the keys of req.query.
Q0 ==
    [param |-> None, source_app |-> None, source_function |-> None,
     reference_id |-> None, created_by |-> None, action |-> None,
     metadata |-> MetaAbsent, limit |-> Absent, offset |-> Absent,
     from |-> Absent, to |-> Absent, unknownKey |-> FALSE]

PathQueries ==
    {[Q0 EXCEPT !.param = p, !.limit = lo[1], !.offset = lo[2]] :
        p \in {"E1", "app1"}, lo \in {<<Absent, Absent>>, <<Num(1), Num(1)>>}}
    \cup {[Q0 EXCEPT !.param = "E1", !.limit = Num(1)],
          [Q0 EXCEPT !.param = "app1", !.source_function = "f1"],
          [Q0 EXCEPT !.param = "E1", !.from = Num(2), !.to = Num(1)],
          [Q0 EXCEPT !.param = "E1", !.from = Num(1), !.to = Num(1)],
          [Q0 EXCEPT !.param = "E1", !.limit = Num(0)],
          [Q0 EXCEPT !.param = "E1", !.limit = Num(LimitMax + 1)],
          [Q0 EXCEPT !.param = "E1", !.offset = Num(0 - 1)],
          [Q0 EXCEPT !.param = "E1", !.unknownKey = TRUE]}

SearchQueries ==
    {Q0,
     [Q0 EXCEPT !.source_app = "app1"],
     [Q0 EXCEPT !.action = "a1", !.limit = Num(1)],
     [Q0 EXCEPT !.metadata = MetaJson(MetaAndroid)],
     [Q0 EXCEPT !.metadata = MetaJson(MetaOs14)],
     [Q0 EXCEPT !.metadata = MetaJson(MetaOs13)],
     [Q0 EXCEPT !.metadata = MetaNotJson],
     [Q0 EXCEPT !.limit = Num(LimitMax + 1)],
     [Q0 EXCEPT !.unknownKey = TRUE]}

\* limit and offset after coercion and defaults.
validatedLimit(q) == IF q.limit = Absent THEN LimitDefault ELSE ValueOf(q.limit)
validatedOffset(q) == IF q.offset = Absent THEN 0 ELSE ValueOf(q.offset)

\* The keys searchSchema adds to querySchema.
hasSearchKeys(q) ==
    \/ q.source_app # None
    \/ q.source_function # None
    \/ q.reference_id # None
    \/ q.created_by # None
    \/ q.action # None
    \/ q.metadata.kind # "absent"

\* searchSchema.parse(req.query) succeeds.
searchSchemaOK(q) ==
    /\ ~q.unknownKey
    /\ validatedLimit(q) >= 1
    /\ validatedLimit(q) <= LimitMax
    /\ validatedOffset(q) >= 0

\* querySchema.parse(req.query) succeeds: querySchema is strict, so the
\* keys of searchSchema are unrecognized keys for it.
querySchemaOK(q) == searchSchemaOK(q) /\ ~hasSearchKeys(q)

\* ------------------------------------------------------------ the store
\* uuidv4(): a fresh identifier, one per call site and call.
uuidv4(batch, i) == "uuid-" \o ToString(batch) \o "-" \o ToString(i)

\* The parameters of the INSERT of storeBatchLogs for entry `log`
\* (description and app_version are stored and never read back by a query).
insertParams(log, comp_code, created_by, batch_id, uuid, now) ==
    [process_id |-> IF Falsy(log.process_id) THEN uuid ELSE log.process_id,
     comp_code |-> comp_code,
     emp_id |-> IF Falsy(log.emp_id) THEN None ELSE log.emp_id,
     source_app |-> log.source_app,
     source_function |->
        IF Falsy(log.source_function) THEN None ELSE log.source_function,
     reference_id |-> IF Falsy(log.reference_id) THEN None ELSE log.reference_id,
     action |-> log.action,
     metadata |-> log.metadata,
     created_by |-> created_by,
     created_at |-> IF log.created_at = Absent THEN now ELSE ValueOf(log.created_at),
     batch_id |-> batch_id]

\* The store refuses the parameters (a NUL character in a text).
paramsRefused(row) == row.source_app = BadText \/ row.action = BadText

\* The tenant_isolation policy: USING and WITH CHECK are the same
\* expression.  A role that bypasses row level security (a superuser, as in
\* the README's setup) is not subject to it.
tenantIsolation(rlsOn, marker, row) == ~rlsOn \/ row.comp_code = marker

\* process_id unique: the rows an insert of `pid` conflicts with.
conflicting(rows, pid) == {x \in rows : x.process_id = pid}

\* Faulty variant of the containment: the documents must be equal.
containsExactly(stored, filter) == filter = stored

\* jsonb containment of flat documents: stored @> filter.
contains(stored, filter) == filter \subseteq stored

\* Faulty variant of the time range: both bounds are exclusive.
inRangeExclusive(row, from, to) ==
    /\ (from = Absent \/ row.created_at > ValueOf(from))
    /\ (to = Absent \/ row.created_at < ValueOf(to))

\* AND created_at >= from AND created_at <= to, each when given.
inRange(row, from, to) ==
    /\ (from = Absent \/ row.created_at >= ValueOf(from))
    /\ (to = Absent \/ row.created_at <= ValueOf(to))

\* WHERE clauses of auditService, the count query and the page query of
\* each operation built as the source builds them.
getUserLogsCountWhere(f, row) ==
    /\ row.comp_code = f.comp_code
    /\ row.emp_id = f.emp_id
    /\ inRange(row, f.from, f.to)

getUserLogsPageWhere(f, row) ==
    /\ row.comp_code = f.comp_code
    /\ row.emp_id = f.emp_id
    /\ inRange(row, f.from, f.to)

getAppLogsCountWhere(f, row) ==
    /\ row.comp_code = f.comp_code
    /\ row.source_app = f.source_app
    /\ (Falsy(f.source_function) \/ row.source_function = f.source_function)
    /\ inRange(row, f.from, f.to)

getAppLogsPageWhere(f, row) ==
    /\ row.comp_code = f.comp_code
    /\ row.source_app = f.source_app
    /\ (Falsy(f.source_function) \/ row.source_function = f.source_function)
    /\ inRange(row, f.from, f.to)

\* Faulty variant of the search count query: no metadata predicate.
searchLogsCountNoMetadata(f, row) ==
    /\ row.comp_code = f.comp_code
    /\ (Falsy(f.source_app) \/ row.source_app = f.source_app)
    /\ (Falsy(f.source_function) \/ row.source_function = f.source_function)
    /\ (Falsy(f.reference_id) \/ row.reference_id = f.reference_id)
    /\ (Falsy(f.created_by) \/ row.created_by = f.created_by)
    /\ (Falsy(f.action) \/ row.action = f.action)
    /\ inRange(row, f.from, f.to)

searchLogsCountWhere(f, row) ==
    /\ row.comp_code = f.comp_code
    /\ (Falsy(f.source_app) \/ row.source_app = f.source_app)
    /\ (Falsy(f.source_function) \/ row.source_function = f.source_function)
    /\ (Falsy(f.reference_id) \/ row.reference_id = f.reference_id)
    /\ (Falsy(f.created_by) \/ row.created_by = f.created_by)
    /\ (Falsy(f.action) \/ row.action = f.action)
    /\ inRange(row, f.from, f.to)
    /\ (f.metadata.kind = "absent" \/ contains(row.metadata, f.metadata.doc))

\* Faulty variant of the search page query: no comp_code predicate.
searchLogsNoTenantWhere(f, row) ==
    /\ (Falsy(f.source_app) \/ row.source_app = f.source_app)
    /\ (Falsy(f.source_function) \/ row.source_function = f.source_function)
    /\ (Falsy(f.reference_id) \/ row.reference_id = f.reference_id)
    /\ (Falsy(f.created_by) \/ row.created_by = f.created_by)
    /\ (Falsy(f.action) \/ row.action = f.action)
    /\ inRange(row, f.from, f.to)
    /\ (f.metadata.kind = "absent" \/ contains(row.metadata, f.metadata.doc))

searchLogsPageWhere(f, row) ==
    /\ row.comp_code = f.comp_code
    /\ (Falsy(f.source_app) \/ row.source_app = f.source_app)
    /\ (Falsy(f.source_function) \/ row.source_function = f.source_function)
    /\ (Falsy(f.reference_id) \/ row.reference_id = f.reference_id)
    /\ (Falsy(f.created_by) \/ row.created_by = f.created_by)
    /\ (Falsy(f.action) \/ row.action = f.action)
    /\ inRange(row, f.from, f.to)
    /\ (f.metadata.kind = "absent" \/ contains(row.metadata, f.metadata.doc))

countWhere(route, f, row) ==
    CASE route = "/logs/user" -> getUserLogsCountWhere(f, row)
      [] route = "/logs/app" -> getAppLogsCountWhere(f, row)
      [] OTHER -> searchLogsCountWhere(f, row)

pageWhere(route, f, row) ==
    CASE route = "/logs/user" -> getUserLogsPageWhere(f, row)
      [] route = "/logs/app" -> getAppLogsPageWhere(f, row)
      [] OTHER -> searchLogsPageWhere(f, row)

\* The statement has a parameter the store cannot read ($n::jsonb of a text
\* that is no JSON).
queryParamsRefused(route, f) == route = "/logs/search" /\ f.metadata.kind = "text"

\* Faulty variant of the page query: no ORDER BY, the rows come in any order.
RECURSIVE unordered(_)
unordered(S) ==
    IF S = {} THEN {<<>>}
    ELSE UNION {{<<x>> \o rest : rest \in unordered(S \ {x})} : x \in S}

\* ORDER BY created_at DESC: every order of the rows the store may return
\* (rows of equal created_at in any order).
RECURSIVE orderedDesc(_)
orderedDesc(S) ==
    IF S = {} THEN {<<>>}
    ELSE LET top == {x \in S : \A y \in S : x.created_at >= y.created_at}
         IN  UNION {{<<x>> \o rest : rest \in orderedDesc(S \ {x})} : x \in top}

\* Faulty variant of LIMIT l OFFSET o: the offset is not applied.
limitNoOffset(rows, l, o) ==
    SubSeq(rows, 1, IF l < Len(rows) THEN l ELSE Len(rows))

\* LIMIT l OFFSET o
limitOffset(rows, l, o) ==
    SubSeq(rows, o + 1, IF o + l < Len(rows) THEN o + l ELSE Len(rows))

\* ------------------------------------------------------------------ state
VARIABLES
    req,          \* request -> its req/res objects and the position of its handler
    sess,         \* session -> the connection's state in the store
    idle,         \* the sessions idle in the pool
    store,        \* the committed rows of tbl_audit_trail_logs
    rls,          \* the service's role is subject to row level security
    faults,       \* connection losses so far
    firstCommit,  \* history: <<process_id, batch_id>> of the first transaction
                  \*   that committed with an entry of that process_id
    accepted,     \* history: <<comp_code, logs>> of the batches answered 201
    logger        \* the OfflineLogger object of a client, its sync() calls
                  \*   and their POSTs

vars == <<req, sess, idle, store, rls, faults, firstCommit, accepted, logger>>

\* What arrives: request line, comp_code (of the body or the query) and
\* x-api-key.
Arrival(method, route, comp_code, apiKey) ==
    [method |-> method, route |-> route, comp_code |-> comp_code, apiKey |-> apiKey]

BadArrivals ==
    {Arrival("POST", "/logs/batch", NoComp, "keyA"),
     Arrival("PUT", "/logs/batch", CompA, "keyA"),
     Arrival("POST", "/logs/batch", CompA, None),
     Arrival("POST", "/logs/batch", CompA, "keyB"),
     Arrival("GET", "/logs/search", CompA, "keyB"),
     Arrival("GET", "/logs/search", CompX, "keyA")}

Arrivals ==
    BadArrivals
    \cup {Arrival("POST", "/logs/batch", CompB, "keyB"),
          Arrival("GET", "/logs/search", CompA, "keyA"),
          Arrival("GET", "/logs/batch", CompA, "keyA")}

IngestArrivals == {Arrival("POST", "/logs/batch", c, apiKeys[c]) : c \in CompCodes}

QueryArrivals ==
    {Arrival("GET", route, c, apiKeys[c]) :
        route \in {"/logs/user", "/logs/app", "/logs/search"}, c \in CompCodes}

\* Bodies and query strings of the requests of Spec.
Bodies ==
    {Body(<<LogP1>>, 1, FALSE),
     Body(<<>>, 0, FALSE),
     Body(<<LogP1>>, BatchMax + 1, FALSE),
     Body(<<LogP1>>, 1, TRUE),
     Body(<<LogNoAction>>, 1, FALSE)}

Queries ==
    {Q0,
     [Q0 EXCEPT !.metadata = MetaNotJson],
     [Q0 EXCEPT !.limit = Num(0)],
     [Q0 EXCEPT !.limit = Num(LimitMax + 1)],
     [Q0 EXCEPT !.offset = Num(0 - 1)],
     [Q0 EXCEPT !.unknownKey = TRUE]}

NoFilters ==
    [comp_code |-> NoComp, emp_id |-> None, source_app |-> None,
     source_function |-> None, reference_id |-> None, created_by |-> None,
     action |-> None, metadata |-> MetaAbsent, limit |-> 0, offset |-> 0,
     from |-> Absent, to |-> Absent]

NewRequest ==
    [pc |-> "new", method |-> None, route |-> None, comp_code |-> NoComp,
     apiKey |-> None, currentCompCode |-> NoComp, dbClient |-> 0,
     listener |-> FALSE, released |-> 0, statements |-> 0,
     status |-> 0, message |-> None,
     size |-> 0, query |-> Q0,
     logs |-> <<>>, created_by |-> None, i |-> 0, before |-> {},
     resubmits |-> FALSE, total_received |-> 0,
     filters |-> NoFilters, total_count |-> 0, rows |-> <<>>]

NewSession == [marker |-> NoComp, tx |-> "idle", dead |-> FALSE, pending |-> {}]

\* Rows earlier batches left in the store (SpecQuery starts from any subset).
EarlierRows ==
    {insertParams(LogP1, CompA, "SYSTEM", 101, uuidv4(101, 1), 2),
     insertParams(LogP2, CompA, "SYSTEM", 101, uuidv4(101, 2), 2),
     insertParams(LogEmptyPid, CompB, "SYSTEM", 102, uuidv4(102, 1), 2),
     insertParams(LogNoPid, CompB, "SYSTEM", 102, uuidv4(102, 2), 3)}

\* new OfflineLogger(baseURL, apiKey).  `calls` counts the sync() calls that
\* sent a POST, posts[n] is the batch of the n-th, `active` are the calls
\* between their await and their finally; logged and synced are history: the
\* process_ids log() queued, and those of the batches of successful syncs.
Syncs == 1..NumSyncs

NewLogger ==
    [queue |-> <<>>, isSyncing |-> FALSE, calls |-> 0, active |-> {},
     posts |-> [n \in Syncs |-> <<>>], logs |-> 0,
     logged |-> {}, synced |-> {}]

InitWith(rows, enforced) ==
    /\ logger = NewLogger
    /\ req = [r \in Requests |-> NewRequest]
    /\ sess = [s \in Sessions |-> NewSession]
    /\ idle = Sessions
    /\ store = rows
    /\ rls = enforced
    /\ faults = 0
    /\ firstCommit = {<<row.process_id, row.batch_id>> : row \in rows}
    /\ accepted = {}

\* The migration enables and forces row level security; the store is empty.
Init == InitWith({}, TRUE)

\* The role of the connection string may be a superuser, which no policy
\* restrains.
InitQuery == \E rows \in SUBSET EarlierRows, enforced \in BOOLEAN : InitWith(rows, enforced)

\* res.status(status).json({message}): the response is sent.
respond(rec, status, message) ==
    [rec EXCEPT !.status = status, !.message = message, !.pc = "responded"]

\* A statement is sent on the request's session.
sent(rec) == [rec EXCEPT !.statements = @ + 1]

\* The session refuses every statement: the connection is lost, or its
\* transaction is aborted.
refuses(s) == sess[s].dead \/ sess[s].tx = "aborted"

\* ------------------------------------------------------------------- pool
\* Faulty variant of pool.connect(): checked-out sessions are handed out too.
anySession(idleSessions) == Sessions

\* pool.connect(): the sessions that may be handed out.
getClient(idleSessions) == idleSessions

\* client.release(): the session is idle again; the pool drops a client
\* whose connection is lost and opens a fresh one in its place.
release(s) ==
    /\ idle' = idle \cup {s}
    /\ sess' = [sess EXCEPT ![s] = IF sess[s].dead THEN NewSession ELSE @]

\* ----------------------------------------------------------------- actions
\* A request arrives under /audit: auth, then tenantContext up to
\* `await db.getClient()`.
Receive(r, a) ==
    /\ req[r].pc = "new"
    /\ IF r = 1 THEN TRUE ELSE req[r - 1].pc # "new"
    /\ LET st == auth(a.method, a.comp_code, a.apiKey)
           got == [req[r] EXCEPT !.method = a.method, !.route = a.route,
                                 !.comp_code = a.comp_code, !.apiKey = a.apiKey]
       IN  req' = [req EXCEPT ![r] =
                CASE st = 400 -> respond(got, 400, "comp_code is required for multi-tenant access")
                  [] st = 401 -> respond(got, 401, "Unauthorized")
                  [] OTHER -> [got EXCEPT !.currentCompCode = a.comp_code,
                                          !.pc = "connect"]]
    /\ UNCHANGED <<sess, idle, store, rls, faults, firstCommit, accepted, logger>>

\* db.getClient() resolves with session s; SET app.current_tenant is sent.
Acquire(r, s) ==
    /\ req[r].pc = "connect"
    /\ s \in getClient(idle)
    /\ idle' = idle \ {s}
    /\ req' = [req EXCEPT ![r] = [@ EXCEPT !.dbClient = s, !.pc = "set"]]
    /\ UNCHANGED <<sess, store, rls, faults, firstCommit, accepted, logger>>

\* db.getClient() rejects after connectionTimeoutMillis with every session
\* checked out.  The await is outside tenantContext's try and no error
\* middleware is installed: depending on the framework version the rejected
\* promise of the middleware is dropped (nothing is ever sent for the
\* request) or is forwarded to the default error handler (500).
AcquireTimeout(r) ==
    /\ req[r].pc = "connect"
    /\ getClient(idle) = {}
    /\ \/ req' = [req EXCEPT ![r].pc = "rejected"]
       \/ req' = [req EXCEPT ![r] = respond(@, 500, "Internal Server Error")]
    /\ UNCHANGED <<sess, idle, store, rls, faults, firstCommit, accepted, logger>>

\* Faulty variant of the catch: the 'finish' listener is registered as well.
setupFailedKeepsListener(rec) ==
    [respond(rec, 500, "Tenant setup failed") EXCEPT
        !.released = @ + 1, !.listener = TRUE]

\* Faulty variant of the catch: the session is not released.
setupFailedNoRelease(rec) == respond(rec, 500, "Tenant setup failed")

\* tenantContext's catch: release, 500, return (no 'finish' listener).
setupFailed(rec) ==
    [respond(rec, 500, "Tenant setup failed") EXCEPT !.released = @ + 1]

\* The SET statement is refused.
SetTenantFails(r) ==
    /\ req[r].pc = "set"
    /\ refuses(req[r].dbClient) \/ ~setTenantStatement(req[r].currentCompCode).ok
    /\ req' = [req EXCEPT ![r] = setupFailed(sent(@))]
    /\ release(req[r].dbClient)
    /\ UNCHANGED <<store, rls, faults, firstCommit, accepted, logger>>

\* The SET statement binds the session; the read-back is sent.
SetTenant(r) ==
    /\ req[r].pc = "set"
    /\ ~refuses(req[r].dbClient)
    /\ setTenantStatement(req[r].currentCompCode).ok
    /\ sess' = [sess EXCEPT ![req[r].dbClient].marker =
                    setTenantStatement(req[r].currentCompCode).value]
    /\ req' = [req EXCEPT ![r] = [sent(@) EXCEPT !.pc = "verify"]]
    /\ UNCHANGED <<idle, store, rls, faults, firstCommit, accepted, logger>>

\* The read-back SELECT current_setting(...) is refused.
VerifyFails(r) ==
    /\ req[r].pc = "verify"
    /\ refuses(req[r].dbClient)
    /\ req' = [req EXCEPT ![r] = setupFailed(sent(@))]
    /\ release(req[r].dbClient)
    /\ UNCHANGED <<store, rls, faults, firstCommit, accepted, logger>>

\* The read-back succeeds: next() runs the router synchronously up to the
\* route's first await or its response, then the 'finish' listener is
\* registered.  The body and the query string are first read here.
verified(r) ==
    /\ req[r].pc = "verify"
    /\ ~refuses(req[r].dbClient)

routeMatches(rec) ==
    \/ rec.method = "POST" /\ rec.route = "/logs/batch"
    \/ rec.method = "GET" /\ rec.route \in {"/logs/user", "/logs/app", "/logs/search"}

\* No route of the router matches: the application's final handler answers.
NoRoute(r) ==
    /\ verified(r)
    /\ ~routeMatches(req[r])
    /\ req' = [req EXCEPT ![r] =
                [respond(sent(@), 404, "Not Found") EXCEPT !.listener = TRUE]]
    /\ UNCHANGED <<sess, idle, store, rls, faults, firstCommit, accepted, logger>>

\* router.post('/logs/batch') up to `await client.query('BEGIN')`.
PostBatch(r, body) ==
    /\ verified(r)
    /\ req[r].method = "POST" /\ req[r].route = "/logs/batch"
    /\ req' = [req EXCEPT ![r] =
            IF ~batchSchemaOK(body)
            THEN [respond(sent(@), 400, "Validation failed")
                    EXCEPT !.listener = TRUE, !.size = body.size]
            ELSE IF @.dbClient = 0
            THEN [respond(sent(@), 500, "Database client not available")
                    EXCEPT !.listener = TRUE, !.size = body.size]
            ELSE [sent(@) EXCEPT !.listener = TRUE, !.logs = body.logs,
                                 !.size = body.size,
                                 !.created_by = validatedCreatedBy(body),
                                 !.before = store,
                                 !.resubmits = (<<req[r].comp_code, body.logs>> \in accepted),
                                 !.pc = "begin"]]
    /\ UNCHANGED <<sess, idle, store, rls, faults, firstCommit, accepted, logger>>

\* The filters each GET route hands to auditService.
routeFilters(rec, q) ==
    [comp_code |-> rec.comp_code,
     emp_id |-> IF rec.route = "/logs/user" THEN q.param ELSE None,
     source_app |-> IF rec.route = "/logs/app" THEN q.param ELSE q.source_app,
     source_function |-> q.source_function,
     reference_id |-> q.reference_id,
     created_by |-> q.created_by,
     action |-> q.action,
     metadata |-> q.metadata,
     limit |-> validatedLimit(q),
     offset |-> validatedOffset(q),
     from |-> q.from,
     to |-> q.to]

routeSchemaOK(route, q) ==
    IF route = "/logs/search" THEN searchSchemaOK(q) ELSE querySchemaOK(q)

\* router.get(...) up to the await of the count query.  The path has a
\* parameter exactly on the by-employee and by-application routes.
GetLogs(r, q) ==
    /\ verified(r)
    /\ req[r].method = "GET"
    /\ req[r].route \in {"/logs/user", "/logs/app", "/logs/search"}
    /\ (req[r].route = "/logs/search") = (q.param = None)
    /\ req' = [req EXCEPT ![r] =
            IF ~routeSchemaOK(@.route, q)
            THEN [respond(sent(@), 400, "Invalid query parameters")
                    EXCEPT !.listener = TRUE, !.query = q]
            ELSE IF @.dbClient = 0
            THEN [respond(sent(@), 500, "Database client not available")
                    EXCEPT !.listener = TRUE, !.query = q]
            ELSE [sent(@) EXCEPT !.listener = TRUE, !.query = q,
                                 !.filters = routeFilters(req[r], q), !.pc = "count"]]
    /\ UNCHANGED <<sess, idle, store, rls, faults, firstCommit, accepted, logger>>

\* ------------------------------------------------------- storeBatchLogs
\* BEGIN is executed (the catch block sends ROLLBACK when it is refused).
Begin(r) ==
    /\ req[r].pc = "begin"
    /\ IF refuses(req[r].dbClient)
       THEN /\ req' = [req EXCEPT ![r] = [sent(@) EXCEPT !.pc = "rollback"]]
            /\ sess' = sess
       ELSE /\ req' = [req EXCEPT ![r] = [sent(@) EXCEPT !.pc = "insert", !.i = 1]]
            /\ sess' = [sess EXCEPT ![req[r].dbClient].tx = "open"]
    /\ UNCHANGED <<idle, store, rls, faults, firstCommit, accepted, logger>>

\* The row the request's pending INSERT proposes.
proposed(r, now) ==
    insertParams(req[r].logs[req[r].i], req[r].comp_code, req[r].created_by,
                 r, uuidv4(r, req[r].i), now)

\* new Date() for an entry without created_at.
Clock == {2, 3}
nowFor(r) == IF req[r].logs[req[r].i].created_at = Absent THEN Clock ELSE {0}

\* The sessions whose open transaction holds an uncommitted row with the
\* process_id the request's INSERT proposes: the INSERT waits for them.
holders(r) ==
    {s \in Sessions \ {req[r].dbClient} :
        conflicting(sess[s].pending, proposed(r, 0).process_id) # {}}

inserting(r) == req[r].pc = "insert" /\ ~refuses(req[r].dbClient)

\* The requests a waiting request waits for, and the wait-for cycles.
waitsFor(r) ==
    IF inserting(r)
    THEN {w \in Requests : req[w].dbClient \in holders(r) /\ req[w].pc = "insert"}
    ELSE {}

RECURSIVE reach(_, _)
reach(S, k) ==
    IF k = 0 THEN S ELSE reach(S \cup UNION {waitsFor(w) : w \in S}, k - 1)

deadlocked(r) == r \in reach(waitsFor(r), NumRequests)

\* After its INSERT the loop sends the next INSERT, or COMMIT.
advance(rec) ==
    IF rec.i < Len(rec.logs) THEN [rec EXCEPT !.i = @ + 1]
    ELSE [rec EXCEPT !.pc = "commit"]

\* Faulty variant of the INSERT: no ON CONFLICT clause, no unique index.
noConflictCheck(committed, pending, row) == pending \cup {row}

\* Faulty variant of the INSERT: process_id is unique per comp_code only.
onConflictPerTenant(committed, pending, row) ==
    IF \E x \in conflicting(committed \cup pending, row.process_id) :
            x.comp_code = row.comp_code
    THEN pending
    ELSE pending \cup {row}

\* The store's effect of INSERT ... ON CONFLICT (process_id) DO NOTHING on
\* the session's rows: a conflicting committed row, or one of the session's
\* own transaction, makes it a no-op.
onConflictDoNothing(committed, pending, row) ==
    IF conflicting(committed \cup pending, row.process_id) # {}
    THEN pending
    ELSE pending \cup {row}

\* The INSERT is refused: by the session, by the parameters, or by the
\* policy's WITH CHECK.  The open transaction is aborted.
insertRefused(r) ==
    \/ refuses(req[r].dbClient)
    \/ paramsRefused(proposed(r, 0))
    \/ ~tenantIsolation(rls, sess[req[r].dbClient].marker, proposed(r, 0))

abort(s) == [sess EXCEPT ![s].tx = IF @ = "open" THEN "aborted" ELSE @]

InsertFails(r) ==
    /\ req[r].pc = "insert"
    /\ insertRefused(r)
    /\ req' = [req EXCEPT ![r] = [sent(@) EXCEPT !.pc = "rollback"]]
    /\ sess' = abort(req[r].dbClient)
    /\ UNCHANGED <<idle, store, rls, faults, firstCommit, accepted, logger>>

\* The INSERT is executed (it waits while another transaction holds an
\* uncommitted row with its process_id).
Insert(r, now) ==
    /\ req[r].pc = "insert"
    /\ ~insertRefused(r)
    /\ holders(r) = {}
    /\ now \in nowFor(r)
    /\ LET s == req[r].dbClient
           after == onConflictDoNothing(store, sess[s].pending, proposed(r, now))
       IN  /\ sess' = [sess EXCEPT ![s].pending = after]
           /\ req' = [req EXCEPT ![r] = advance(sent(@))]
    /\ UNCHANGED <<idle, store, rls, faults, firstCommit, accepted, logger>>

\* The store's deadlock detector ends the wait of one transaction of a
\* wait-for cycle with an error.
InsertDeadlock(r) ==
    /\ req[r].pc = "insert"
    /\ ~insertRefused(r)
    /\ deadlocked(r)
    /\ req' = [req EXCEPT ![r] = [sent(@) EXCEPT !.pc = "rollback"]]
    /\ sess' = abort(req[r].dbClient)
    /\ UNCHANGED <<idle, store, rls, faults, firstCommit, accepted, logger>>

\* The process_ids the call's INSERTs proposed.
submitted(r) ==
    {insertParams(req[r].logs[k], req[r].comp_code, req[r].created_by, r,
                  uuidv4(r, k), 0).process_id : k \in 1..Len(req[r].logs)}

\* Faulty variant of storeBatchLogs' return: total_received counts the rows
\* the call wrote.
CommitCountsWritten(r) ==
    /\ req[r].pc = "commit"
    /\ LET s == req[r].dbClient
       IN  IF refuses(s)
           THEN /\ req' = [req EXCEPT ![r] = [sent(@) EXCEPT !.pc = "rollback"]]
                /\ UNCHANGED <<sess, store, firstCommit, accepted>>
           ELSE /\ store' = store \cup sess[s].pending
                /\ sess' = [sess EXCEPT ![s].pending = {}, ![s].tx = "idle"]
                /\ firstCommit' = firstCommit \cup
                        {<<pid, r>> : pid \in {p \in submitted(r) :
                                        \A b \in Requests : <<p, b>> \notin firstCommit}}
                /\ accepted' = accepted \cup {<<req[r].comp_code, req[r].logs>>}
                /\ req' = [req EXCEPT ![r] =
                        [respond(sent(@), 201, "Logs successfully stored")
                            EXCEPT !.total_received = Cardinality(sess[s].pending)]]
    /\ UNCHANGED <<idle, rls, faults, logger>>

\* COMMIT is executed and storeBatchLogs returns: 201.  A refused COMMIT
\* goes to the catch block.
Commit(r) ==
    /\ req[r].pc = "commit"
    /\ LET s == req[r].dbClient
       IN  IF refuses(s)
           THEN /\ req' = [req EXCEPT ![r] = [sent(@) EXCEPT !.pc = "rollback"]]
                /\ UNCHANGED <<sess, store, firstCommit, accepted>>
           ELSE /\ store' = store \cup sess[s].pending
                /\ sess' = [sess EXCEPT ![s].pending = {}, ![s].tx = "idle"]
                /\ firstCommit' = firstCommit \cup
                        {<<pid, r>> : pid \in {p \in submitted(r) :
                                        \A b \in Requests : <<p, b>> \notin firstCommit}}
                /\ accepted' = accepted \cup {<<req[r].comp_code, req[r].logs>>}
                /\ req' = [req EXCEPT ![r] =
                        [respond(sent(@), 201, "Logs successfully stored")
                            EXCEPT !.total_received = Len(req[r].logs)]]
    /\ UNCHANGED <<idle, rls, faults, logger>>

\* Faulty variant of the catch block: the pending rows are committed.
RollbackKeepsRows(r) ==
    /\ req[r].pc = "rollback"
    /\ LET s == req[r].dbClient
       IN  /\ store' = store \cup sess[s].pending
           /\ sess' = [sess EXCEPT ![s].pending = {}, ![s].tx = "idle"]
    /\ req' = [req EXCEPT ![r] = respond(sent(@), 500, "Failed to store logs")]
    /\ UNCHANGED <<idle, rls, faults, firstCommit, accepted, logger>>

\* Faulty variant of the catch block: it deletes the rows that carry the
\* batch's process_ids.
RollbackDeletes(r) ==
    /\ req[r].pc = "rollback"
    /\ LET s == req[r].dbClient
       IN  sess' = IF sess[s].dead THEN sess
                   ELSE [sess EXCEPT ![s].pending = {}, ![s].tx = "idle"]
    /\ store' = {row \in store : row.process_id \notin submitted(r)}
    /\ req' = [req EXCEPT ![r] = respond(sent(@), 500, "Failed to store logs")]
    /\ UNCHANGED <<idle, rls, faults, firstCommit, accepted, logger>>

\* Faulty variant of the catch block: no ROLLBACK is sent.
RollbackNotSent(r) ==
    /\ req[r].pc = "rollback"
    /\ req' = [req EXCEPT ![r] = respond(@, 500, "Failed to store logs")]
    /\ UNCHANGED <<sess, idle, store, rls, faults, firstCommit, accepted, logger>>

\* The catch block: ROLLBACK is executed (or refused, on a lost
\* connection), the error is rethrown and the route answers 500.
Rollback(r) ==
    /\ req[r].pc = "rollback"
    /\ LET s == req[r].dbClient
       IN  sess' = IF sess[s].dead THEN sess
                   ELSE [sess EXCEPT ![s].pending = {}, ![s].tx = "idle"]
    /\ req' = [req EXCEPT ![r] = respond(sent(@), 500, "Failed to store logs")]
    /\ UNCHANGED <<idle, store, rls, faults, firstCommit, accepted, logger>>

\* ------------------------------------------- getUserLogs / getAppLogs / searchLogs
\* Faulty variant of the isolation level: a statement also sees the rows
\* other sessions have inserted and not committed.
visibleDirty(s) ==
    {row \in store \cup UNION {sess[o].pending : o \in Sessions} :
        tenantIsolation(rls, sess[s].marker, row)}

\* The rows a statement of session s sees (read committed, subject to the
\* policy's USING).
visible(s) == {row \in store : tenantIsolation(rls, sess[s].marker, row)}

queryRefused(r) ==
    \/ refuses(req[r].dbClient)
    \/ queryParamsRefused(req[r].route, req[r].filters)

\* The count query is executed; the page query is sent.
Count(r) ==
    /\ req[r].pc = "count"
    /\ req' = [req EXCEPT ![r] =
            IF queryRefused(r)
            THEN respond(sent(@), 500, "Query failed")
            ELSE [sent(@) EXCEPT !.pc = "page", !.total_count =
                    Cardinality({row \in visible(req[r].dbClient) :
                        countWhere(req[r].route, req[r].filters, row)})]]
    /\ UNCHANGED <<sess, idle, store, rls, faults, firstCommit, accepted, logger>>

\* The page query is executed and the route answers 200.
Page(r) ==
    /\ req[r].pc = "page"
    /\ IF queryRefused(r)
       THEN req' = [req EXCEPT ![r] = respond(sent(@), 500, "Query failed")]
       ELSE \E rows \in orderedDesc({row \in visible(req[r].dbClient) :
                            pageWhere(req[r].route, req[r].filters, row)}) :
              req' = [req EXCEPT ![r] =
                  [respond(sent(@), 200, "success") EXCEPT !.rows =
                      limitOffset(rows, req[r].filters.limit, req[r].filters.offset)]]
    /\ UNCHANGED <<sess, idle, store, rls, faults, firstCommit, accepted, logger>>

\* -------------------------------------------------------------- the rest
\* What is left of a request once its response is flushed.
finished(rec) ==
    [NewRequest EXCEPT !.pc = "done", !.status = rec.status,
                       !.dbClient = rec.dbClient, !.listener = rec.listener,
                       !.released = rec.released]

\* The response is flushed: 'finish' runs tenantContext's listener.
Finish(r) ==
    /\ req[r].pc = "responded"
    /\ IF req[r].listener /\ req[r].dbClient # 0
       THEN /\ release(req[r].dbClient)
            /\ req' = [req EXCEPT ![r] = [finished(@) EXCEPT !.released = @ + 1]]
       ELSE /\ req' = [req EXCEPT ![r] = finished(@)]
            /\ UNCHANGED <<sess, idle>>
    /\ UNCHANGED <<store, rls, faults, firstCommit, accepted, logger>>

\* The caller disconnects before the response is completely sent: the
\* response emits 'close' and never 'finish'.  tenantContext listens for
\* 'finish' only, so nothing runs and the request is over.
Close(r) ==
    /\ req[r].pc = "responded"
    /\ req' = [req EXCEPT ![r] = [finished(@) EXCEPT !.pc = "closed"]]
    /\ UNCHANGED <<sess, idle, store, rls, faults, firstCommit, accepted, logger>>

\* The connection of a checked-out session is lost: the store rolls its
\* transaction back and every later statement on it is refused.
ConnectionLost(s) ==
    /\ faults < MaxFaults
    /\ s \notin idle
    /\ ~sess[s].dead
    /\ faults' = faults + 1
    /\ sess' = [sess EXCEPT ![s] = [@ EXCEPT !.dead = TRUE, !.tx = "idle", !.pending = {}]]
    /\ UNCHANGED <<req, idle, store, rls, firstCommit, accepted, logger>>

\* ---------------------------------------------------------- OfflineLogger
\* The events the application hands to log(): one without process_id and
\* created_at, one with a process_id of its own, and another event the
\* application gave the same process_id, in turn.
LogP1Again == Log("p1", "E1", "app1", "f1", "a2", MetaAndroid, Num(2))
Events == {LogP1, LogNoPid, LogP1Again}

eventOf(n) ==
    CASE n % 3 = 1 -> LogNoPid
      [] n % 3 = 2 -> LogP1
      [] OTHER -> LogP1Again

\* Faulty variant of log(): the event is queued as it is.
logEntryAsGiven(event, n) == event

\* log(): logEntry, its process_id and created_at assigned here, once.
logEntry(event, n) ==
    [event EXCEPT
        !.process_id = IF Falsy(@) THEN uuidv4(0, n) ELSE @,
        !.created_at = IF @ = Absent THEN Num(2) ELSE @]

processIds(batch) == {batch[k].process_id : k \in 1..Len(batch)}

\* Faulty variant of sync(): isSyncing is not tested.
syncUnguarded(lg) ==
    IF Len(lg.queue) = 0
    THEN lg
    ELSE [lg EXCEPT !.isSyncing = TRUE,
                    !.calls = @ + 1,
                    !.active = @ \cup {lg.calls + 1},
                    !.posts[lg.calls + 1] = lg.queue]

\* sync() up to `await axios.post(...)`: nothing when the queue is empty or
\* a sync is running, otherwise isSyncing is set and a copy of the queue is
\* posted.
sync(lg) ==
    IF Len(lg.queue) = 0 \/ lg.isSyncing
    THEN lg
    ELSE [lg EXCEPT !.isSyncing = TRUE,
                    !.calls = @ + 1,
                    !.active = @ \cup {lg.calls + 1},
                    !.posts[lg.calls + 1] = lg.queue]

\* log(event): the entry is queued and sync() is called, not awaited.
log(event) ==
    /\ logger.logs < NumLogs
    /\ event = eventOf(logger.logs + 1)
    /\ LET entry == logEntry(event, logger.logs + 1)
           queued == [logger EXCEPT !.queue = Append(@, entry),
                                    !.logs = @ + 1,
                                    !.logged = @ \cup {entry.process_id}]
       IN  /\ sync(queued).calls <= NumSyncs
           /\ logger' = sync(queued)
    /\ UNCHANGED <<req, sess, idle, store, rls, faults, firstCommit, accepted>>

\* forceSync(): sync() with a queue that is not empty.
forceSync ==
    /\ Len(logger.queue) > 0
    /\ sync(logger).calls <= NumSyncs
    /\ logger' = sync(logger)
    /\ UNCHANGED <<req, sess, idle, store, rls, faults, firstCommit, accepted>>

\* The POST of sync call n is answered 201: the entries whose process_id was
\* in the batch leave the queue; finally isSyncing = false.
syncSucceeded(n) ==
    /\ n \in logger.active
    /\ req[n].pc \in {"responded", "done"} /\ req[n].status = 201
    /\ logger' = [logger EXCEPT
            !.queue = SelectSeq(@, LAMBDA entry :
                        entry.process_id \notin processIds(logger.posts[n])),
            !.synced = @ \cup processIds(logger.posts[n]),
            !.active = @ \ {n},
            !.isSyncing = FALSE]
    /\ UNCHANGED <<req, sess, idle, store, rls, faults, firstCommit, accepted>>

\* axios.post of sync call n throws: the request or its response is lost
\* (at any moment of the server's handling, also after its commit), or the
\* answer is not 2xx.  The queue is left as it is; finally isSyncing = false.
syncFailed(n) ==
    /\ n \in logger.active
    /\ logger' = [logger EXCEPT !.active = @ \ {n}, !.isSyncing = FALSE]
    /\ UNCHANGED <<req, sess, idle, store, rls, faults, firstCommit, accepted>>

\* The POST of sync call n reaches the service.
OfflineArrival == Arrival("POST", "/logs/batch", CompA, "keyA")

Delivered(n) ==
    /\ n <= logger.calls
    /\ Receive(n, OfflineArrival)

\* The body of the POST of sync call n.
payload(n) == Body(logger.posts[n], Len(logger.posts[n]), FALSE)

\* The service under every kind of request and the loss of connections.
Clients == 1..NumClients

Next ==
    \/ \E r \in Clients, a \in Arrivals : Receive(r, a)
    \/ \E r \in Clients, s \in Sessions : Acquire(r, s)
    \/ \E r \in Clients : SetTenantFails(r)
    \/ \E r \in Clients : SetTenant(r)
    \/ \E r \in Clients : VerifyFails(r)
    \/ \E r \in Clients : NoRoute(r)
    \/ \E r \in Clients, body \in Bodies : PostBatch(r, body)
    \/ \E r \in Clients, q \in Queries : GetLogs(r, q)
    \/ \E r \in Clients : Begin(r)
    \/ \E r \in Clients : InsertFails(r)
    \/ \E r \in Clients, now \in Clock \cup {0} : Insert(r, now)
    \/ \E r \in Clients : Commit(r)
    \/ \E r \in Clients : Rollback(r)
    \/ \E r \in Clients : Count(r)
    \/ \E r \in Clients : Page(r)
    \/ \E r \in Clients : Finish(r)
    \/ \E s \in Sessions : ConnectionLost(s)

Spec == Init /\ [][Next]_vars

\* The service under more concurrent requests than the pool has sessions.
PoolArrivals ==
    {Arrival("POST", "/logs/batch", CompA, "keyA"),
     Arrival("GET", "/logs/search", CompA, "keyA"),
     Arrival("GET", "/logs/search", CompB, "keyB")}

NextPool ==
    \/ \E r \in Requests, a \in PoolArrivals : Receive(r, a)
    \/ \E r \in Requests, s \in Sessions : Acquire(r, s)
    \/ \E r \in Requests : AcquireTimeout(r)
    \/ \E r \in Requests : SetTenant(r)
    \/ \E r \in Requests : PostBatch(r, Body(<<LogP1>>, 1, FALSE))
    \/ \E r \in Requests : GetLogs(r, Q0)
    \/ \E r \in Requests : Begin(r)
    \/ \E r \in Requests : Insert(r, 0)
    \/ \E r \in Requests : Commit(r)
    \/ \E r \in Requests : Count(r)
    \/ \E r \in Requests : Page(r)
    \/ \E r \in Requests : Finish(r)
    \/ \E r \in Requests : Close(r)

SpecPool == Init /\ [][NextPool]_vars

\* The service under concurrent batch submissions of both tenants.
Writers == 1..NumWriters

NextIngest ==
    \/ \E r \in Writers, a \in IngestArrivals : Receive(r, a)
    \/ \E r \in Writers, s \in Sessions : Acquire(r, s)
    \/ \E r \in Writers : SetTenant(r)
    \/ \E r \in Writers, l \in LogArrays : PostBatch(r, Body(l, Len(l), FALSE))
    \/ \E r \in Writers : Begin(r)
    \/ \E r \in Writers : InsertFails(r)
    \/ \E r \in Writers, now \in Clock \cup {0} : Insert(r, now)
    \/ \E r \in Writers : InsertDeadlock(r)
    \/ \E r \in Writers : Commit(r)
    \/ \E r \in Writers : Rollback(r)
    \/ \E r \in Writers : Finish(r)

SpecIngest == Init /\ [][NextIngest]_vars

\* The service under reads of a store that holds rows of both tenants.
Readers == 1..NumReaders

NextQuery ==
    \/ \E r \in Readers, a \in QueryArrivals : Receive(r, a)
    \/ \E r \in Readers, s \in Sessions : Acquire(r, s)
    \/ \E r \in Readers : SetTenant(r)
    \/ \E r \in Readers, q \in PathQueries \cup SearchQueries : GetLogs(r, q)
    \/ \E r \in Readers : Count(r)
    \/ \E r \in Readers : Page(r)
    \/ \E r \in Readers : Finish(r)

SpecQuery == InitQuery /\ [][NextQuery]_vars

\* An OfflineLogger and the service: log() and forceSync() calls, the POSTs
\* of its sync() calls handled by the service, lost and answered.
NextOffline ==
    \/ \E event \in Events : logger.logs < NumOfflineLogs /\ log(event)
    \/ forceSync
    \/ \E n \in Syncs : syncSucceeded(n)
    \/ \E n \in Syncs : syncFailed(n)
    \/ \E n \in Syncs : Delivered(n)
    \/ \E r \in Syncs, s \in Sessions : Acquire(r, s)
    \/ \E r \in Syncs : SetTenantFails(r)
    \/ \E r \in Syncs : SetTenant(r)
    \/ \E r \in Syncs : VerifyFails(r)
    \/ \E r \in Syncs : PostBatch(r, payload(r))
    \/ \E r \in Syncs : Begin(r)
    \/ \E r \in Syncs : InsertFails(r)
    \/ \E r \in Syncs, now \in Clock \cup {0} : Insert(r, now)
    \/ \E r \in Syncs : Commit(r)
    \/ \E r \in Syncs : Rollback(r)
    \/ \E r \in Syncs : Finish(r)
    \/ \E s \in Sessions : ConnectionLost(s)

SpecOffline == Init /\ [][NextOffline]_vars

\* An OfflineLogger and the service without faults of the store: every POST
\* that is handled is answered 201, and a sync fails when its request or its
\* response is lost.
NextQueue ==
    \/ \E event \in Events : log(event)
    \/ forceSync
    \/ \E n \in Syncs : syncSucceeded(n)
    \/ \E n \in Syncs : syncFailed(n)
    \/ \E n \in Syncs : Delivered(n)
    \/ \E r \in Syncs, s \in Sessions : Acquire(r, s)
    \/ \E r \in Syncs : SetTenant(r)
    \/ \E r \in Syncs : PostBatch(r, payload(r))
    \/ \E r \in Syncs : Begin(r)
    \/ \E r \in Syncs : Insert(r, 0)
    \/ \E r \in Syncs : Commit(r)
    \/ \E r \in Syncs : Finish(r)

SpecQueue == Init /\ [][NextQueue]_vars

\* ================================================================ properties
\* The positions at which a route handler's statement is executed next.
handlerPcs == {"begin", "insert", "commit", "rollback", "count", "page"}

\* The request holds a session: acquired and not yet released.
holding(r) == req[r].dbClient # 0 /\ req[r].released = 0

\* The rows of the store that the batch of request r wrote.
rowsOf(r) == {row \in store : row.batch_id = r}

\* C1: every row a read request answers with (getUserLogs, getAppLogs,
\* searchLogs) carries the comp_code the request authenticated as, whatever
\* the store holds, whatever the filter, under an enforced policy or not.
ReadIsolation ==
    \A r \in Requests :
        req[r].pc = "responded" /\ req[r].status = 200 =>
            /\ configuredKey(req[r].currentCompCode) = req[r].apiKey
            /\ \A k \in 1..Len(req[r].rows) :
                    req[r].rows[k].comp_code = req[r].currentCompCode

\* A search without any optional predicate answers rows while the store
\* holds rows of another tenant and no policy is enforced.
ReadIsolationWitness ==
    \E r \in Requests :
        /\ req[r].pc = "responded" /\ req[r].status = 200
        /\ req[r].route = "/logs/search"
        /\ req[r].filters = routeFilters(req[r], Q0)
        /\ Len(req[r].rows) >= 1
        /\ ~rls
        /\ \E row \in store : row.comp_code # req[r].currentCompCode

\* C2: whenever a route handler is about to execute a statement on its
\* session, the session's app.current_tenant is the comp_code whose key the
\* request presented; never the empty marker, never an earlier request's.
TenantBound ==
    \A r \in Requests :
        req[r].pc \in handlerPcs =>
            /\ req[r].dbClient # 0
            /\ sess[req[r].dbClient].marker = req[r].currentCompCode
            /\ req[r].currentCompCode # NoComp
            /\ configuredKey(req[r].currentCompCode) = req[r].apiKey

\* A batch of the tenant whose comp_code holds a quote runs on the session
\* that served a finished search of the other tenant.
TenantBoundWitness ==
    \E r1, r2 \in Requests :
        /\ req[r1].pc = "done" /\ req[r1].status = 200
        /\ req[r2].pc \in {"insert", "commit"}
        /\ req[r2].currentCompCode = CompB
        /\ req[r2].dbClient = req[r1].dbClient

ExclusiveOwnership ==
    /\ \A r1, r2 \in Requests :
            r1 # r2 /\ holding(r1) /\ holding(r2) => req[r1].dbClient # req[r2].dbClient
    /\ \A r \in Requests : holding(r) => req[r].dbClient \notin idle
    /\ \A r \in Requests : req[r].pc \in handlerPcs \cup {"set", "verify"} => holding(r)
    /\ Cardinality({r \in Requests : holding(r)}) <= PoolMax

\* Every session of the pool is held and one more request waits for one.
ExclusiveOwnershipWitness ==
    /\ idle = {}
    /\ Cardinality({r \in Requests : holding(r)}) = PoolMax
    /\ \E r \in Requests : req[r].pc = "connect"

\* C5: a batch whose entries all carry a process_id and that was already
\* answered 201 is answered 201 again with total_received = its length, and
\* its second submission adds no row to the store.
ResubmitAddsNoRow ==
    \A r \in Requests :
        /\ req[r].pc = "responded"
        /\ req[r].resubmits
        /\ \A k \in 1..Len(req[r].logs) : req[r].logs[k].process_id # None
        => /\ req[r].status = 201
           /\ req[r].total_received = Len(req[r].logs)
           /\ rowsOf(r) = {}

\* C6: when storeBatchLogs fails, none of the rows of its batch is in the
\* store, none is left pending on the session, and the store holds what it
\* held before the call (and what other calls committed meanwhile).
RollbackRestoresStore ==
    \A r \in Requests :
        req[r].pc = "responded" /\ req[r].message = "Failed to store logs" =>
            /\ req[r].status = 500
            /\ rowsOf(r) = {}
            /\ sess[req[r].dbClient].pending = {}
            /\ sess[req[r].dbClient].tx = "idle"
            /\ req[r].before \subseteq store
            /\ (\A w \in Requests : w # r => rowsOf(w) \subseteq req[r].before)
                    => store = req[r].before

\* The second entry of a batch was refused after the first was inserted.
RollbackRestoresStoreWitness ==
    \E r \in Requests :
        /\ req[r].pc = "responded" /\ req[r].message = "Failed to store logs"
        /\ req[r].logs = <<LogP1, LogBad>>
        /\ req[r].i = 2
        /\ conflicting(store, "p1") = {}

\* C7: a batch whose entries the store accepts one by one is answered 201,
\* whatever process_ids it shares with itself or with concurrent batches.
DuplicateNeverFails ==
    \A r \in Requests :
        /\ req[r].pc = "responded"
        /\ req[r].logs # <<>>
        /\ \A k \in 1..Len(req[r].logs) : req[r].logs[k] # LogBad
        => req[r].status = 201

\* C8: the store holds at most one row per process_id, tenants
\* notwithstanding, and the row is of the first batch that committed with an
\* entry of that process_id.
ProcessIdUnique ==
    /\ \A x, y \in store : x.process_id = y.process_id => x = y
    /\ \A row \in store : <<row.process_id, row.batch_id>> \in firstCommit
    /\ \A e1, e2 \in firstCommit : e1[1] = e2[1] => e1 = e2

\* Batches of both tenants with the same process_id were both answered 201
\* and the store holds one row of it.
ProcessIdUniqueWitness ==
    /\ \E la, lb \in LogArrays :
        /\ <<CompA, la>> \in accepted /\ <<CompB, lb>> \in accepted
        /\ \E k \in 1..Len(la) : la[k] = LogP1
        /\ \E k \in 1..Len(lb) : lb[k] = LogP1
    /\ Cardinality(conflicting(store, "p1")) = 1

\* The comp_code auth reads: of the body (POST), of the query (GET).
readCompCode(rec) == IF rec.method \in {"GET", "POST"} THEN rec.comp_code ELSE NoComp

\* The request acquired no session, executed no statement, wrote no row.
untouched(r) ==
    /\ req[r].dbClient = 0
    /\ req[r].statements = 0
    /\ req[r].released = 0
    /\ ~req[r].listener
    /\ rowsOf(r) = {}

\* C9: a request without comp_code is answered 400 and one with a comp_code
\* and no x-api-key, or one that is not the key configured for the
\* comp_code, is answered 401; neither acquires a session, executes a
\* statement or writes a row.
RejectedByAuth ==
    \A r \in Requests :
        /\ req[r].pc \notin {"new", "done"} /\ readCompCode(req[r]) = NoComp =>
                req[r].pc = "responded" /\ req[r].status = 400 /\ untouched(r)
        /\ /\ req[r].pc \notin {"new", "done"}
           /\ readCompCode(req[r]) # NoComp
           /\ (req[r].apiKey = None \/ req[r].apiKey # configuredKey(req[r].comp_code))
           => req[r].pc = "responded" /\ req[r].status = 401 /\ untouched(r)
        /\ req[r].status = 401 => untouched(r)

\* One request was refused for its missing comp_code and one for the key of
\* another tenant, while the store holds rows.
RejectedByAuthWitness ==
    \E r1, r2 \in Requests :
        /\ req[r1].status = 400 /\ req[r1].message = "comp_code is required for multi-tenant access"
        /\ req[r2].pc = "responded" /\ req[r2].status = 401
        /\ req[r2].comp_code = CompA /\ req[r2].apiKey = "keyB"

\* The route answered 400 for the body or the query string.
validationFailed(r) ==
    /\ req[r].status = 400
    /\ req[r].message \in {"Validation failed", "Invalid query parameters"}

\* C10 as stated: when a validation error is reported the request has
\* acquired no session and executed no statement.
ValidationBeforeStoreAccess ==
    \A r \in Requests :
        validationFailed(r) => req[r].dbClient = 0 /\ req[r].statements = 0

\* C10: when a validation error is reported the request holds the session
\* tenantContext acquired and bound (two statements: SET and its read-back),
\* no statement of auditService was executed, no transaction is open and no
\* row of the request is in the store; auditService is only called with a
\* body or a query that passed validation.
ValidationBeforeService ==
    \A r \in Requests :
        /\ validationFailed(r) /\ req[r].pc = "responded" =>
            /\ holding(r) /\ req[r].listener
            /\ req[r].statements = 2
            /\ sess[req[r].dbClient].pending = {}
            /\ rowsOf(r) = {}
        /\ req[r].pc \in {"begin", "insert", "commit", "rollback"} =>
            /\ Len(req[r].logs) \in 1..BatchMax
            /\ \A k \in 1..Len(req[r].logs) :
                    req[r].logs[k].source_app # None /\ req[r].logs[k].action # None
        /\ req[r].pc \in {"count", "page"} =>
            /\ req[r].filters.limit \in 1..LimitMax
            /\ req[r].filters.offset >= 0

\* A batch request was answered 400 while it holds a bound session.
ValidationBeforeServiceWitness ==
    \E r \in Requests :
        /\ req[r].pc = "responded" /\ validationFailed(r)
        /\ req[r].method = "POST"
        /\ holding(r)
        /\ sess[req[r].dbClient].marker = req[r].currentCompCode

\* The batch route read the request's body.
batchRead(r) ==
    /\ req[r].listener
    /\ req[r].method = "POST" /\ req[r].route = "/logs/batch"

\* C11: a batch request whose logs array is empty or longer than 1000 is
\* answered 400 'Validation failed' and storeBatchLogs is not called for it:
\* it executed tenantContext's two statements only, opened no transaction,
\* and no row of it is pending or stored.
OversizedBatchRejected ==
    \A r \in Requests :
        batchRead(r) /\ req[r].size \notin 1..BatchMax =>
            /\ req[r].pc = "responded"
            /\ req[r].status = 400 /\ req[r].message = "Validation failed"
            /\ req[r].logs = <<>>
            /\ req[r].statements = 2
            /\ sess[req[r].dbClient].pending = {}
            /\ rowsOf(r) = {}

\* A batch of 1001 entries was answered 400 while the store holds the rows
\* an earlier batch committed.
OversizedBatchRejectedWitness ==
    \E r \in Requests :
        /\ batchRead(r) /\ req[r].size = BatchMax + 1
        /\ req[r].status = 400
        /\ store # {}
        /\ \A w \in Requests : req[w].pc \notin handlerPcs

\* C12: when SET app.current_tenant or its read-back throws, tenantContext
\* releases the session at once and answers 500 'Tenant setup failed'; the
\* route handler never runs for the request (no body or query string read, no
\* statement beyond the one or two of the setup), no 'finish' listener is
\* registered, the session is back in the pool (idle, or handed to another
\* request) when the 500 is sent, and it has been released exactly once when
\* the response has finished.
TenantSetupFailure ==
    \A r \in Requests :
        /\ req[r].message = "Tenant setup failed" =>
            /\ req[r].pc = "responded" /\ req[r].status = 500
            /\ req[r].released = 1
            /\ ~req[r].listener
            /\ req[r].statements \in 1..2
            /\ req[r].size = 0 /\ req[r].query = Q0
            /\ req[r].logs = <<>> /\ req[r].filters = NoFilters
            /\ req[r].rows = <<>> /\ rowsOf(r) = {}
            /\ \/ req[r].dbClient \in idle
               \/ \E o \in Requests \ {r} :
                    holding(o) /\ req[o].dbClient = req[r].dbClient
        /\ req[r].pc = "done" /\ req[r].dbClient # 0 /\ ~req[r].listener =>
            req[r].released = 1

\* The read-back was refused: the request is answered 500 after two
\* statements and its session is back in the pool.
TenantSetupFailureWitness ==
    \E r \in Requests :
        /\ req[r].message = "Tenant setup failed"
        /\ req[r].statements = 2
        /\ req[r].dbClient \in idle

\* The request's db.getClient() timed out with the pool exhausted.
timedOut(r) ==
    \/ req[r].pc = "rejected"
    \/ req[r].pc = "responded" /\ req[r].message = "Internal Server Error"

\* C13: a request whose session acquisition timed out because every pool
\* session was checked out is answered with an error status and holds no
\* session.
PoolExhaustedAnswered ==
    \A r \in Requests :
        timedOut(r) => req[r].status >= 500 /\ req[r].dbClient = 0

\* C14: every batch answered 201 reports total_received equal to the number
\* of entries of the submitted logs array, whether the call wrote a row for
\* every entry, for some of them, or for none (all duplicates).
TotalReceivedIsSubmitted ==
    \A r \in Requests :
        req[r].pc = "responded" /\ req[r].status = 201 =>
            /\ req[r].total_received = Len(req[r].logs)
            /\ req[r].total_received = req[r].size
            /\ Cardinality(rowsOf(r)) <= req[r].total_received

\* Two batches of two entries are answered 201 with total_received = 2: one
\* wrote both rows, the other wrote none.
TotalReceivedIsSubmittedWitness ==
    \E r1, r2 \in Requests :
        /\ req[r1].status = 201 /\ req[r2].status = 201
        /\ req[r1].total_received = 2 /\ req[r2].total_received = 2
        /\ Cardinality(rowsOf(r1)) = 2
        /\ rowsOf(r2) = {}

\* The rows the page query of request r selects before LIMIT and OFFSET.
matching(r) ==
    {row \in visible(req[r].dbClient) :
        pageWhere(req[r].route, req[r].filters, row)}

min(a, b) == IF a < b THEN a ELSE b
max(a, b) == IF a > b THEN a ELSE b

\* C15: a read answered 200 ran with limit L in [1,200] and offset O >= 0,
\* its page has at most L rows, and with no write in between it has exactly
\* min(L, max(0, M - O)) rows, M being the number of rows that match.
PageSize ==
    \A r \in Requests :
        req[r].pc = "responded" /\ req[r].status = 200 =>
            LET L == req[r].filters.limit
                O == req[r].filters.offset
                M == Cardinality(matching(r))
            IN  /\ L \in 1..LimitMax /\ O >= 0
                /\ Len(req[r].rows) <= L
                /\ Len(req[r].rows) = min(L, max(0, M - O))

\* Two rows match, limit = 1 and offset = 0: the page has one row.
PageSizeWitness ==
    \E r \in Requests :
        /\ req[r].pc = "responded" /\ req[r].status = 200
        /\ req[r].filters.limit = 1 /\ req[r].filters.offset = 0
        /\ Cardinality(matching(r)) = 2
        /\ Len(req[r].rows) = 1

\* C16: the count query and the page query of a read select by the same
\* predicates, so with no write between them the total_count of a 200
\* response is the number of rows that satisfy the page query's predicates,
\* whatever limit and offset are.
CountMatchesPage ==
    \A r \in Requests :
        /\ req[r].pc \in {"count", "page"} =>
            \A row \in store :
                countWhere(req[r].route, req[r].filters, row)
                    = pageWhere(req[r].route, req[r].filters, row)
        /\ req[r].pc = "responded" /\ req[r].status = 200 =>
            req[r].total_count = Cardinality(matching(r))

\* Two rows match and limit = 1: total_count = 2 with a page of one row.
CountMatchesPageWitness ==
    \E r \in Requests :
        /\ req[r].pc = "responded" /\ req[r].status = 200
        /\ req[r].filters.limit = 1
        /\ req[r].total_count = 2
        /\ Len(req[r].rows) = 1

\* The committed rows the predicates of request r select.
committedMatching(r) ==
    {row \in store :
        /\ tenantIsolation(rls, sess[req[r].dbClient].marker, row)
        /\ pageWhere(req[r].route, req[r].filters, row)}

\* C17: the count statement and the page statement of a read each see the
\* rows committed when the statement itself runs, not a snapshot shared by
\* the two: total_count is the number of matching rows committed at the
\* count statement, the page is cut from the matching rows committed at the
\* page statement, and total_count is not recomputed.  A batch of the same
\* tenant may therefore commit between the two.
StatementSnapshots ==
    [][\A r \in Requests :
        /\ req[r].pc = "count" /\ req'[r].pc = "page" =>
            req'[r].total_count = Cardinality(committedMatching(r))
        /\ req[r].pc = "page" /\ req'[r].status = 200 =>
            /\ req'[r].total_count = req[r].total_count
            /\ \E rows \in orderedDesc(committedMatching(r)) :
                req'[r].rows = limitOffset(rows, req[r].filters.limit,
                                           req[r].filters.offset)]_vars

\* A read is answered 200 with total_count = 0 and a non-empty page: a
\* batch of its tenant committed between its two statements.
StatementSnapshotsWitness ==
    \E r \in Requests :
        /\ req[r].pc = "responded" /\ req[r].status = 200
        /\ req[r].total_count = 0
        /\ Len(req[r].rows) >= 1
        /\ \A row \in store : row.comp_code = req[r].comp_code

\* The rows of a page, as a set.
pageRows(r) == {req[r].rows[k] : k \in 1..Len(req[r].rows)}

\* The search of request r has a JSON metadata filter and no other filter,
\* and its page is large enough for every stored row.
metadataSearch(r) ==
    /\ req[r].pc = "responded" /\ req[r].status = 200
    /\ req[r].route = "/logs/search"
    /\ req[r].query.metadata.kind = "json"
    /\ req[r].query = [Q0 EXCEPT !.metadata = req[r].query.metadata]
    /\ Cardinality(store) <= req[r].filters.limit

\* C18: a search with a metadata filter answers exactly the rows of the
\* request's tenant whose metadata has every key of the filter with the
\* filter's value: extra keys in the row do not matter, a missing key or a
\* different value excludes the row.
MetadataContainment ==
    \A r \in Requests :
        metadataSearch(r) =>
            pageRows(r) =
                {row \in store :
                    /\ row.comp_code = req[r].comp_code
                    /\ \A kv \in req[r].query.metadata.doc :
                            kv \in row.metadata}

\* The filter {os: 14} answers the row with metadata {device, os: 14} and
\* not the tenant's row with metadata {device}.
MetadataContainmentWitness ==
    \E r \in Requests :
        /\ metadataSearch(r)
        /\ req[r].query.metadata.doc = MetaOs14
        /\ \E row \in pageRows(r) : row.metadata = MetaAndroid14
        /\ \E row \in store \ pageRows(r) :
                row.comp_code = req[r].comp_code /\ row.metadata = MetaAndroid

\* The by-application route read a query string with source_function and
\* nothing else besides comp_code.
functionQuery(r) ==
    /\ req[r].pc = "responded"
    /\ req[r].method = "GET" /\ req[r].route = "/logs/app"
    /\ req[r].query.source_function # None
    /\ req[r].query = [Q0 EXCEPT !.param = req[r].query.param,
                                 !.source_function = req[r].query.source_function]

\* C19: GET /logs/app/:source_app with a source_function in the query string
\* is answered 200 with exactly the tenant's rows of that source_app and
\* source_function.
AppFunctionFilterAccepted ==
    \A r \in Requests :
        functionQuery(r) =>
            /\ req[r].status = 200
            /\ pageRows(r) =
                {row \in store :
                    /\ row.comp_code = req[r].comp_code
                    /\ row.source_app = req[r].query.param
                    /\ row.source_function = req[r].query.source_function}

\* The by-employee route answered a query string with from and to and no
\* other key besides comp_code.
rangeQuery(r) ==
    /\ req[r].pc = "responded"
    /\ req[r].method = "GET" /\ req[r].route = "/logs/user"
    /\ req[r].query.from # Absent /\ req[r].query.to # Absent
    /\ req[r].query = [Q0 EXCEPT !.param = req[r].query.param,
                                 !.from = req[r].query.from,
                                 !.to = req[r].query.to]

\* C20: a by-employee read with from and to is answered 200 with the
\* tenant's rows of the employee whose created_at is in [from, to], both
\* bounds included; with from > to that is an empty page and total_count = 0,
\* not an error.
TimeRangeInclusive ==
    \A r \in Requests :
        rangeQuery(r) =>
            LET from == ValueOf(req[r].query.from)
                to == ValueOf(req[r].query.to)
                inside == {row \in store :
                            /\ row.comp_code = req[r].comp_code
                            /\ row.emp_id = req[r].query.param
                            /\ from <= row.created_at
                            /\ row.created_at <= to}
            IN  /\ req[r].status = 200
                /\ pageRows(r) = inside
                /\ req[r].total_count = Cardinality(inside)
                /\ from > to => req[r].rows = <<>> /\ req[r].total_count = 0

\* from = 2 and to = 1 while the tenant has rows of the employee at 1 and 2:
\* the answer is 200 with no row and total_count = 0.
TimeRangeInclusiveWitness ==
    \E r \in Requests :
        /\ rangeQuery(r)
        /\ ValueOf(req[r].query.from) > ValueOf(req[r].query.to)
        /\ req[r].status = 200 /\ req[r].rows = <<>> /\ req[r].total_count = 0
        /\ \E row \in store :
            /\ row.comp_code = req[r].comp_code
            /\ row.emp_id = req[r].query.param
            /\ row.created_at = ValueOf(req[r].query.to)

\* C21: the page of a read answered 200 is the slice [offset, offset+limit)
\* of the matching rows in an order of non-increasing created_at: consecutive
\* rows of the page have non-increasing created_at, the row at position k is
\* preceded by offset + k - 1 rows that are not older in that order, and
\* every row of the page the same query returns at offset + limit over the
\* unchanged store is not later than every row of this page.
PageOrdered ==
    \A r \in Requests :
        req[r].pc = "responded" /\ req[r].status = 200 =>
            LET L == req[r].filters.limit
                O == req[r].filters.offset
                rows == req[r].rows
            IN  /\ pageRows(r) \subseteq matching(r)
                /\ \A k \in 1..Len(rows) - 1 :
                        rows[k].created_at >= rows[k + 1].created_at
                /\ \A k \in 1..Len(rows) :
                    /\ Cardinality({x \in matching(r) :
                            x.created_at > rows[k].created_at}) <= O + k - 1
                    /\ Cardinality({x \in matching(r) :
                            x.created_at >= rows[k].created_at}) >= O + k
                /\ \A following \in orderedDesc(matching(r)) :
                        LET next == limitOffset(following, L, O + L)
                        IN  \A j \in 1..Len(next), k \in 1..Len(rows) :
                                next[j].created_at <= rows[k].created_at

\* Two rows match and limit = 1: the page at offset 0 holds the later row and
\* the page at offset 1 the earlier one.
PageOrderedWitness ==
    \E r \in Requests :
        /\ req[r].pc = "responded" /\ req[r].status = 200
        /\ req[r].filters.limit = 1 /\ req[r].filters.offset = 0
        /\ Len(req[r].rows) = 1
        /\ \E x \in matching(r) : x.created_at < req[r].rows[1].created_at

\* The process_ids of the entries of request r that a committed row of
\* another tenant already carries.
takenByOtherTenant(r) ==
    {pid \in submitted(r) :
        \E row \in store :
            row.process_id = pid /\ row.comp_code # req[r].comp_code}

\* C22: when a batch commits and is answered 201 while a committed row of
\* another tenant carries the process_id of one of its entries, the entry is
\* counted in total_received, the commit adds no row with that process_id,
\* and the other tenant's row is in the store unchanged afterwards.
CrossTenantSuppression ==
    [][\A r \in Requests :
        req[r].pc = "commit" /\ req'[r].status = 201 =>
            /\ req'[r].total_received = Len(req[r].logs)
            /\ \A pid \in takenByOtherTenant(r) :
                /\ conflicting(store' \ store, pid) = {}
                /\ conflicting(store', pid) = conflicting(store, pid)
                /\ \A row \in conflicting(store', pid) :
                        row.comp_code # req[r].comp_code /\ row.batch_id # r]_vars

\* A batch of one tenant is answered 201 with total_received = 2 and wrote no
\* row: the rows with its entries' process_ids belong to the other tenant.
CrossTenantSuppressionWitness ==
    \E r \in Requests :
        /\ req[r].pc = "responded" /\ req[r].status = 201
        /\ req[r].total_received = 2
        /\ rowsOf(r) = {}
        /\ takenByOtherTenant(r) = submitted(r)

\* C23: the store is append-only: every committed row is in the store of
\* every later state with the same field values, and the store changes only
\* when a batch commits (a read, a rolled-back batch, a rejected request and
\* the release of a session leave it as it is).
AppendOnly ==
    [][/\ store \subseteq store'
       /\ store' # store =>
            \E r \in Requests :
                /\ req[r].pc = "commit" /\ req'[r].status = 201
                /\ \A row \in store' \ store : row.batch_id = r]_vars

\* The store holds the row of one batch while a later batch with the same
\* entry was answered 201 without writing a row.
AppendOnlyWitness ==
    \E r1, r2 \in Requests :
        /\ rowsOf(r1) # {}
        /\ req[r2].pc = "responded" /\ req[r2].status = 201
        /\ rowsOf(r2) = {}

\* C24: for every entry of a validated batch that carries a process_id, the
\* INSERT of storeBatchLogs uses that value as process_id; a generated
\* identifier is used only for an entry without process_id.
SuppliedProcessIdIsKey ==
    \A r \in Requests :
        req[r].pc \in {"insert", "commit"} =>
            \A k \in 1..Len(req[r].logs) :
                LET entry == req[r].logs[k]
                    key == insertParams(entry, req[r].comp_code, req[r].created_by,
                                        r, uuidv4(r, k), 0).process_id
                IN  /\ entry.process_id # None => key = entry.process_id
                    /\ key = uuidv4(r, k) => entry.process_id = None

\* C25: whatever log() calls, failed syncs (the response lost after the
\* service committed included) and retried syncs happened, every POST carries
\* the process_ids assigned at log() time, the store holds at most one row
\* per logged entry, of the logger's tenant, and exactly one once a sync
\* whose batch contained the entry has succeeded.
RetriesAddNoDuplicate ==
    /\ \A n \in 1..logger.calls : processIds(logger.posts[n]) \subseteq logger.logged
    /\ processIds(logger.queue) \subseteq logger.logged
    /\ \A pid \in logger.logged :
        /\ Cardinality(conflicting(store, pid)) <= 1
        /\ \A row \in conflicting(store, pid) : row.comp_code = CompA
        /\ pid \in logger.synced => Cardinality(conflicting(store, pid)) = 1
    /\ Cardinality(store) <= Cardinality(logger.logged)

\* One entry was logged and posted twice: the first POST was committed and
\* answered 201 but its sync failed, the retry succeeded, and the store
\* holds one row.
RetriesAddNoDuplicateWitness ==
    /\ logger.logs = 1 /\ logger.calls = 2
    /\ req[1].status = 201 /\ req[2].status = 201
    /\ logger.synced # {}
    /\ logger.queue = <<>>
    /\ Cardinality(store) = 1

\* The rows request r has inserted: pending in its transaction, or committed.
writtenBy(r) ==
    rowsOf(r) \cup
        (IF req[r].pc \in {"insert", "commit"}
         THEN sess[req[r].dbClient].pending ELSE {})

\* C26: every row a request has written, pending or committed, carries the
\* comp_code the request authenticated for (its x-api-key is the key
\* configured for that comp_code), and while the transaction is open that is
\* the tenant marker of the session the row was written on.
WrittenUnderOwnTenant ==
    \A r \in Requests :
        req[r].pc \in {"insert", "commit", "rollback", "responded"} =>
            \A row \in writtenBy(r) :
                /\ row.comp_code = req[r].comp_code
                /\ row.comp_code = req[r].currentCompCode
                /\ configuredKey(row.comp_code) = req[r].apiKey
                /\ req[r].pc \in {"insert", "commit"} =>
                        sess[req[r].dbClient].marker = row.comp_code

\* A request holds an uncommitted row of its tenant on its session while a
\* batch for another comp_code sent with this tenant's key was answered 401.
WrittenUnderOwnTenantWitness ==
    \E r1, r2 \in Requests :
        /\ req[r1].pc = "commit" /\ sess[req[r1].dbClient].pending # {}
        /\ req[r2].pc = "responded" /\ req[r2].status = 401
        /\ req[r2].method = "POST"
        /\ req[r2].apiKey = req[r1].apiKey
        /\ req[r2].comp_code # req[r1].comp_code

\* C27: when a batch is answered 201 the store holds, for every entry that
\* was submitted with a process_id, a row with that process_id; when it is
\* answered 500 by the storage step the store holds no row of the batch.
AnsweredAfterCommit ==
    \A r \in Requests :
        /\ req[r].pc = "responded" /\ req[r].status = 201 =>
            /\ sess[req[r].dbClient].pending = {}
            /\ \A k \in 1..Len(req[r].logs) :
                req[r].logs[k].process_id # None =>
                    conflicting(store, req[r].logs[k].process_id) # {}
        /\ req[r].pc = "responded" /\ req[r].message = "Failed to store logs" =>
            rowsOf(r) = {}

\* The session has no transaction in progress and no uncommitted row.
closed(s) == sess[s].tx = "idle" /\ sess[s].pending = {}

ReleasedOnClose ==
    \A r \in Requests :
        req[r].pc = "closed" /\ req[r].dbClient # 0 =>
            req[r].released = 1 /\ req[r].dbClient \in idle

\* C30: at most one sync request of the OfflineLogger is in flight, isSyncing
\* is set exactly while one is, and so once an attempt has ended, with a 2xx
\* answer or with a failure, the next sync() of a non-empty queue posts again.
OneSyncInFlight ==
    /\ Cardinality(logger.active) <= 1
    /\ logger.isSyncing <=> logger.active # {}
    /\ logger.active = {} /\ Len(logger.queue) > 0 =>
            sync(logger).active = {logger.calls + 1}

\* The first sync failed (nothing was ever answered 2xx), an entry was logged
\* meanwhile or afterwards, and the second sync is in flight with both.
OneSyncInFlightWitness ==
    /\ logger.calls = 2 /\ logger.active = {2}
    /\ logger.synced = {}
    /\ Len(logger.posts[1]) = 1 /\ Len(logger.posts[2]) = 2
    /\ logger.isSyncing

\* The entries of a queue or of a posted batch.
entries(batch) == {batch[k] : k \in 1..Len(batch)}

\* C31: an entry leaves the OfflineLogger's queue only in the step in which a
\* sync whose batch contained that entry ends with a 2xx answer: a failed sync
\* removes nothing, and an entry queued by log() while the sync was in flight
\* (so not in its batch) stays in the queue.
RemovedOnlyWhenSynced ==
    [][\A entry \in entries(logger.queue) :
            entry \notin entries(logger.queue') =>
                \E n \in logger.active :
                    /\ n \notin logger.active'
                    /\ req[n].status = 201
                    /\ entry \in entries(logger.posts[n])]_vars

====
